---- MODULE Spec2Model ----
(***************************************************************************)
(* A model of package tabular (src/tabular.go): a Buffer stores rows of    *)
(* cells (AddRow) and prints them as a padded text table (WriteTo).        *)
(*                                                                         *)
(* Go strings and byte slices are sequences of bytes (0..255).  A value    *)
(* passed to AddRow is a base value (a string, an int or a bool) under a   *)
(* stack of alignment markers, outermost first.  Go's 0-based indices are  *)
(* kept for the arena offset i; rows, cells and widths are 1-based         *)
(* sequences, so the code's "j > 0" reads "j > 1" here.                    *)
(***************************************************************************)
EXTENDS Integers, Sequences, FiniteSets, TLC

VARIABLES
    b,        \* the Buffer: [opts, buf, rows]                (tabular.go:45-49)
    last,     \* the most recent WriteTo call: what it wrote and returned
    op,       \* the operation that produced this state
    lastVs,   \* the values given to the most recent AddRow
    added,    \* history: the text of every cell of every row ever added
    flushed,  \* history: rows already written by a WriteTo that returned nil
    flushedBefore  \* history: flushed as it was before the most recent call

vars == <<b, last, op, lastVs, added, flushed, flushedBefore>>

\* ------------------------------------------------------------------ bounds
MaxRows == 2      \* rows a Buffer holds
MaxCells == 4     \* cells a Buffer holds, over all its rows
MaxNest == 3      \* alignment markers around one value

\* --------------------------------------------------------------- utilities
Max2(x, y) == IF x > y THEN x ELSE y
Min2(x, y) == IF x < y THEN x ELSE y

RECURSIVE Concat(_)
Concat(ss) == IF ss = <<>> THEN <<>> ELSE Head(ss) \o Concat(Tail(ss))

RECURSIVE SumSeq(_)
SumSeq(s) == IF s = <<>> THEN 0 ELSE Head(s) + SumSeq(Tail(s))

\* strings.Repeat of a one-byte string (an ASCII pad character).
Repeat(ch, n) == [k \in 1..n |-> ch]

\* ------------------------------------------------------- text and encoding
\* UTF-8 encoding of one code point below 0x10000, as the Go compiler encodes
\* the string literals of the tests.
EncodeRune(r) ==
    IF r < 128 THEN <<r>>
    ELSE IF r < 2048 THEN <<192 + (r \div 64), 128 + (r % 64)>>
    ELSE <<224 + (r \div 4096), 128 + ((r \div 64) % 64), 128 + (r % 64)>>

Str(cps) == Concat([k \in 1..Len(cps) |-> EncodeRune(cps[k])])

\* The runes of a UTF-8 string, as a range loop over a Go string decodes them;
\* an invalid byte decodes to U+FFFD and consumes one byte.
RECURSIVE DecodeRunes(_)
DecodeRunes(s) ==
    IF s = <<>> THEN <<>>
    ELSE LET c == s[1] IN
         IF c < 128 THEN <<c>> \o DecodeRunes(Tail(s))
         ELSE IF c >= 192 /\ c < 224 /\ Len(s) >= 2
              THEN <<(c - 192) * 64 + (s[2] - 128)>> \o DecodeRunes(SubSeq(s, 3, Len(s)))
         ELSE IF c >= 224 /\ c < 240 /\ Len(s) >= 3
              THEN <<(c - 224) * 4096 + (s[2] - 128) * 64 + (s[3] - 128)>>
                       \o DecodeRunes(SubSeq(s, 4, Len(s)))
         ELSE <<65533>> \o DecodeRunes(Tail(s))

\* runewidth.RuneWidth: control characters and combining marks take no column,
\* East Asian wide and fullwidth code points take two, everything else one.
RuneWidth(r) ==
    IF r < 32 \/ (r >= 127 /\ r < 160) THEN 0
    ELSE IF r >= 768 /\ r <= 879 THEN 0
    ELSE IF \/ (r >= 4352 /\ r <= 4447)
            \/ (r >= 11904 /\ r <= 42191)
            \/ (r >= 44032 /\ r <= 55203)
            \/ (r >= 63744 /\ r <= 64255)
            \/ (r >= 65072 /\ r <= 65135)
            \/ (r >= 65280 /\ r <= 65376)
            \/ (r >= 65504 /\ r <= 65510) THEN 2
    ELSE 1

StringWidth(s) ==
    LET rs == DecodeRunes(s) IN SumSeq([k \in 1..Len(rs) |-> RuneWidth(rs[k])])

\* csiRegexp: \x1b\[[\x30-\x3f]*[\x20-\x2f]*[\x40-\x7e]
IsParam(c) == c >= 48 /\ c <= 63
IsIntermediate(c) == c >= 32 /\ c <= 47
IsFinal(c) == c >= 64 /\ c <= 126

\* The index of the first byte at or after p that fails the class test.
RECURSIVE SkipParams(_, _)
SkipParams(s, p) ==
    IF p <= Len(s) /\ IsParam(s[p]) THEN SkipParams(s, p + 1) ELSE p

RECURSIVE SkipIntermediates(_, _)
SkipIntermediates(s, p) ==
    IF p <= Len(s) /\ IsIntermediate(s[p]) THEN SkipIntermediates(s, p + 1) ELSE p

\* The length of the match of csiRegexp that starts at byte p, or 0.  The three
\* byte classes are disjoint, so the greedy match is the only match.
CsiMatchLen(s, p) ==
    IF p + 1 <= Len(s) /\ s[p] = 27 /\ s[p + 1] = 91
    THEN LET q == SkipIntermediates(s, SkipParams(s, p + 2)) IN
         IF q <= Len(s) /\ IsFinal(s[q]) THEN q + 1 - p ELSE 0
    ELSE 0

\* csiRegexp.ReplaceAllString(s, ""): leftmost matches, left to right.
RECURSIVE StripFrom(_, _)
StripFrom(s, p) ==
    IF p > Len(s) THEN <<>>
    ELSE LET n == CsiMatchLen(s, p) IN
         IF n > 0 THEN StripFrom(s, p + n) ELSE <<s[p]>> \o StripFrom(s, p + 1)

StripCSI(s) == StripFrom(s, 1)

\* A plausible slip: the width in bytes taken for the width in cells.
cellWidthBytes(s) == Len(s)

cellWidth(s) == StringWidth(StripCSI(s))

\* ------------------------------------------------------------------ values
\* A value: marks is the stack of Right ("R") / Left ("L") wrappers, outermost
\* first; kind, n and s are the base value.
StrVal(s) == [marks |-> <<>>, kind |-> "string", n |-> 0, s |-> s]
IntVal(n) == [marks |-> <<>>, kind |-> "int", n |-> n, s |-> <<>>]
BoolVal(t) == [marks |-> <<>>, kind |-> "bool", n |-> IF t THEN 1 ELSE 0, s |-> <<>>]

Right(v) == [v EXCEPT !.marks = <<"R">> \o @]
Left(v) == [v EXCEPT !.marks = <<"L">> \o @]

IsRight(v) == v.marks # <<>> /\ Head(v.marks) = "R"
IsLeft(v) == v.marks # <<>> /\ Head(v.marks) = "L"
Unwrap(v) == [v EXCEPT !.marks = Tail(@)]

RECURSIVE Digits(_)
Digits(n) == IF n < 10 THEN <<48 + n>> ELSE Digits(n \div 10) \o <<48 + (n % 10)>>

FormatInt(n) == IF n < 0 THEN <<45>> \o Digits(0 - n) ELSE Digits(n)

\* fmt.Sprint of one value: a marker is a Stringer whose String method prints
\* the value it wraps; a string prints as itself, an int in decimal, a bool as
\* true or false.
RECURSIVE Sprint(_)
Sprint(v) ==
    IF v.marks # <<>> THEN Sprint(Unwrap(v))
    ELSE IF v.kind = "string" THEN v.s
    ELSE IF v.kind = "int" THEN FormatInt(v.n)
    ELSE IF v.n = 1 THEN Str(<<116, 114, 117, 101>>)
    ELSE Str(<<102, 97, 108, 115, 101>>)

\* --------------------------------------------------------------- the Buffer
\* New: a zero PadChar becomes space; nothing else is looked at.
New(opts) ==
    [opts |-> [opts EXCEPT !.PadChar = IF @ = 0 THEN 32 ELSE @],
     buf |-> <<>>,
     rows |-> <<>>]

\* The alignment AddRow gives a value, and the value left to print: one Right
\* layer is taken off if the value is a Right, then one Left layer if what is
\* left is a Left.
ResolveAlign(v, alignRight) ==
    LET r1 == IF IsRight(v) THEN TRUE ELSE alignRight
        v1 == IF IsRight(v) THEN Unwrap(v) ELSE v
        r2 == IF IsLeft(v1) THEN FALSE ELSE r1
        v2 == IF IsLeft(v1) THEN Unwrap(v1) ELSE v1
    IN [v |-> v2, right |-> r2]

\* One iteration of AddRow's loop: the cell and the text appended to the arena.
MakeCell(v, alignRight) ==
    LET a == ResolveAlign(v, alignRight)
        s == Sprint(a.v)
    IN [cell |-> [wb |-> Len(s), wc |-> cellWidth(s), right |-> a.right], s |-> s]

AddRow(buffer, vs) ==
    LET made == [k \in 1..Len(vs) |-> MakeCell(vs[k], buffer.opts.AlignRight)] IN
    [buffer EXCEPT
        !.buf = @ \o Concat([k \in 1..Len(vs) |-> made[k].s]),
        !.rows = Append(@, [k \in 1..Len(vs) |-> made[k].cell])]

\* ----------------------------------------------------------------- WriteTo
\* A plausible slip: a cell overwrites the width found so far.
WidthsAfterRowLast(widths, row) ==
    [k \in 1..Max2(Len(widths), Len(row)) |->
        IF k <= Len(row) THEN row[k].wc ELSE widths[k]]

\* The inner loop of the column width pass over one row.
WidthsAfterRow(widths, row) ==
    [k \in 1..Max2(Len(widths), Len(row)) |->
        IF k > Len(widths) THEN row[k].wc
        ELSE IF k <= Len(row) THEN Max2(widths[k], row[k].wc)
        ELSE widths[k]]

RECURSIVE WidthsOver(_, _)
WidthsOver(widths, rows) ==
    IF rows = <<>> THEN widths
    ELSE WidthsOver(WidthsAfterRow(widths, Head(rows)), Tail(rows))

\* The widths WriteTo resolves: the pass over all rows, then the MinWidth floor.
ColumnWidths(rows, minWidth) ==
    LET ws == WidthsOver(<<>>, rows) IN [k \in 1..Len(ws) |-> Max2(ws[k], minWidth)]

\* slices.Max panics on an empty slice.
RECURSIVE SlicesMax(_)
SlicesMax(ws) ==
    IF Len(ws) = 1 THEN ws[1] ELSE Max2(ws[1], SlicesMax(Tail(ws)))

\* s[:k] panics unless 0 <= k <= len(s).
SliceOK(s, k) == k >= 0 /\ k <= Len(s)

\* A plausible slip: the gap is written before every cell.
GapBeforeAlways(j) == TRUE

\* "if j > 0": the inter-cell gap is written before every cell but the first.
GapBefore(j) == j > 1

\* A plausible slip: a left-aligned cell is padded also when it is the last.
PadAfterAlways(c, j, n) == ~c.right

\* "if !c.right && j < len(row)-1": pad after a left-aligned cell that is not
\* the last of its row.
PadAfter(c, j, n) == ~c.right /\ j < n

\* One iteration of the cell loop on st = [panic, line, i]: each slice
\* expression panics when it is out of range, and a panic ends the call.
RenderCell(st, row, j, widths, opts, padBuf, buf) ==
    LET c == row[j]
        gapBad == GapBefore(j) /\ ~SliceOK(padBuf, opts.Padding)
        l1 == IF GapBefore(j) /\ ~gapBad
              THEN st.line \o SubSeq(padBuf, 1, opts.Padding) ELSE st.line
        idxBad == j > Len(widths)
        width == IF idxBad THEN 0 ELSE widths[j]
        padBad == ~SliceOK(padBuf, width - c.wc)
        l2 == IF c.right /\ ~padBad
              THEN l1 \o SubSeq(padBuf, 1, width - c.wc) ELSE l1
        bufBad == st.i + c.wb > Len(buf)
        l3 == IF bufBad THEN l2 ELSE l2 \o SubSeq(buf, st.i + 1, st.i + c.wb)
        l4 == IF PadAfter(c, j, Len(row)) /\ ~padBad
              THEN l3 \o SubSeq(padBuf, 1, width - c.wc) ELSE l3
    IN IF st.panic THEN st
       ELSE IF \/ gapBad
               \/ idxBad
               \/ (c.right /\ padBad)
               \/ bufBad
               \/ (PadAfter(c, j, Len(row)) /\ padBad)
            THEN [st EXCEPT !.panic = TRUE]
       ELSE [panic |-> FALSE, line |-> l4, i |-> st.i + c.wb]

RECURSIVE RenderCells(_, _, _, _, _, _, _)
RenderCells(st, row, j, widths, opts, padBuf, buf) ==
    IF j > Len(row) THEN st
    ELSE RenderCells(RenderCell(st, row, j, widths, opts, padBuf, buf),
                     row, j + 1, widths, opts, padBuf, buf)

\* The line of one row, newline included, starting at arena offset i.
RenderRow(row, i, widths, opts, padBuf, buf) ==
    LET st == RenderCells([panic |-> FALSE, line |-> <<>>, i |-> i],
                          row, 1, widths, opts, padBuf, buf)
    IN [st EXCEPT !.line = @ \o <<10>>]

\* What one w.Write(line) reports under the plan: the write numbered
\* plan.failAt fails after min(plan.n, len(line)) bytes, every other write
\* takes the whole line.
SinkWrite(plan, k, line) ==
    IF plan.failAt = k
    THEN [n |-> Min2(plan.n, Len(line)), err |-> "EIO"]
    ELSE [n |-> Len(line), err |-> "nil"]

\* "if err != nil { return written, err }"
StopOnError(err) == err # "nil"

\* The emission loop from row k on; acc = [i, written, writes, reported].  A
\* panic in the layout of a row ends the call before that row is written.
RECURSIVE WriteRows(_, _, _, _, _, _)
WriteRows(acc, k, buffer, widths, padBuf, plan) ==
    IF k > Len(buffer.rows)
    THEN [outcome |-> "return", written |-> acc.written, err |-> "nil",
          writes |-> acc.writes, reported |-> acc.reported]
    ELSE LET r == RenderRow(buffer.rows[k], acc.i, widths, buffer.opts, padBuf, buffer.buf)
             w == SinkWrite(plan, k, r.line)
             acc2 == [i |-> r.i,
                      written |-> acc.written + w.n,
                      writes |-> Append(acc.writes, r.line),
                      reported |-> Append(acc.reported, w.n)]
         IN IF r.panic
            THEN [outcome |-> "panic", written |-> acc.written, err |-> "nil",
                  writes |-> acc.writes, reported |-> acc.reported]
            ELSE IF StopOnError(w.err)
            THEN [outcome |-> "return", written |-> acc2.written, err |-> w.err,
                  writes |-> acc2.writes, reported |-> acc2.reported]
            ELSE WriteRows(acc2, k + 1, buffer, widths, padBuf, plan)

\* What a WriteTo call on the buffer does to the sink and returns; slices.Max
\* panics when no row has a cell.
WriteTo(buffer, plan) ==
    LET widths == ColumnWidths(buffer.rows, buffer.opts.MinWidth) IN
    IF widths = <<>>
    THEN [outcome |-> "panic", written |-> 0, err |-> "nil", writes |-> <<>>,
          reported |-> <<>>, widths |-> widths, plan |-> plan]
    ELSE LET maxPad == Max2(SlicesMax(widths), buffer.opts.Padding)
             padBuf == Repeat(buffer.opts.PadChar, maxPad)
             res == WriteRows([i |-> 0, written |-> 0, writes |-> <<>>, reported |-> <<>>],
                              1, buffer, widths, padBuf, plan)
         IN [outcome |-> res.outcome, written |-> res.written, err |-> res.err,
             writes |-> res.writes, reported |-> res.reported,
             widths |-> widths, plan |-> plan]

\* The Buffer after WriteTo: no field of it is assigned.
BufferAfterWriteTo(buffer) == buffer

\* ------------------------------------------------------------- the inputs
\* Options in the shapes the tests use: MinWidth 0 or 3, Padding 0 or 2,
\* PadChar unset or '.', either default alignment.
OptionSet ==
    { [MinWidth |-> 0, Padding |-> 0, PadChar |-> 0, AlignRight |-> FALSE],
      [MinWidth |-> 0, Padding |-> 2, PadChar |-> 0, AlignRight |-> FALSE],
      [MinWidth |-> 0, Padding |-> 2, PadChar |-> 46, AlignRight |-> TRUE],
      [MinWidth |-> 3, Padding |-> 2, PadChar |-> 46, AlignRight |-> FALSE],
      [MinWidth |-> 3, Padding |-> 0, PadChar |-> 0, AlignRight |-> TRUE],
      [MinWidth |-> 3, Padding |-> 2, PadChar |-> 46, AlignRight |-> TRUE] }

\* The options of the runs with a failing sink and of the width runs.
SinkOptionSet ==
    { [MinWidth |-> 0, Padding |-> 2, PadChar |-> 46, AlignRight |-> FALSE],
      [MinWidth |-> 3, Padding |-> 0, PadChar |-> 0, AlignRight |-> TRUE] }

\* Options with a negative MinWidth or Padding among them.
AnyOptionSet ==
    [MinWidth : {-1, 0}, Padding : {-1, 0, 2}, PadChar : {46}, AlignRight : BOOLEAN]

\* The values of the layout runs: the int 7 (one column, default alignment),
\* Right("\u4f60") (one wide code point: two columns, three bytes) and
\* Left("\x1b[1mabc\x1b[0m") (three visible columns, eleven bytes).
Values ==
    { IntVal(7),
      Right(StrVal(Str(<<20320>>))),
      Left(StrVal(Str(<<27, 91, 49, 109, 97, 98, 99, 27, 91, 48, 109>>))) }

RowInputs == UNION {[1..n -> Values] : n \in 0..MaxCells}

\* The texts of the width runs, as tokens: a CSI sequence ("csi", its bytes), a
\* wide code point ("wide") or an ordinary one ("plain").
Csi(bytes) == [t |-> "csi", x |-> <<27, 91>> \o bytes]
Wide(cp) == [t |-> "wide", x |-> EncodeRune(cp)]
Plain(cp) == [t |-> "plain", x |-> EncodeRune(cp)]

TokBytes(toks) == Concat([k \in 1..Len(toks) |-> toks[k].x])

\* "\x1b[1ma\x1b[0m", "\u4f60\u597d\u00e9" and "\x1b[38;5;1$q\u263a".
Samples ==
    { <<Csi(<<49, 109>>), Plain(97), Csi(<<48, 109>>)>>,
      <<Wide(20320), Wide(22909), Plain(233)>>,
      <<Csi(<<51, 56, 59, 53, 59, 49, 36, 113>>), Plain(9786)>> }

TextValues == {StrVal(TokBytes(toks)) : toks \in Samples}

TextRowInputs == UNION {[1..n -> TextValues] : n \in 0..MaxCells}

\* Values under every stack of at most MaxNest markers.
RECURSIVE Nested(_, _)
Nested(S, d) ==
    IF d = 0 THEN S
    ELSE LET T == Nested(S, d - 1) IN
         T \cup {Right(v) : v \in T} \cup {Left(v) : v \in T}

AlignValues == Nested({StrVal(Str(<<97>>)), BoolVal(TRUE)}, MaxNest)

AlignRowInputs == UNION {[1..n -> AlignValues] : n \in 0..1}

\* The sink: it never fails (failAt = 0), or its write numbered failAt fails
\* having taken at most n bytes.
NeverFails == [failAt |-> 0, n |-> 0]

Plans(nrows) == {NeverFails} \cup [failAt : 1..nrows, n : {1}]

NoCall ==
    [outcome |-> "none", written |-> 0, err |-> "nil", writes |-> <<>>,
     reported |-> <<>>, widths |-> <<>>, plan |-> NeverFails]

\* ------------------------------------------------------------ state machine
InitWith(options) ==
    /\ \E o \in options : b = New(o)
    /\ last = NoCall
    /\ op = "New"
    /\ lastVs = <<>>
    /\ added = <<>>
    /\ flushed = 0
    /\ flushedBefore = 0

Init == InitWith(OptionSet)

InitAny == InitWith(AnyOptionSet)

InitSink == InitWith(SinkOptionSet)

TotalCells(rows) == SumSeq([k \in 1..Len(rows) |-> Len(rows[k])])

AddRowAction(vs) ==
    /\ Len(b.rows) < MaxRows
    /\ TotalCells(b.rows) + Len(vs) <= MaxCells
    /\ b' = AddRow(b, vs)
    /\ last' = NoCall
    /\ op' = "AddRow"
    /\ lastVs' = vs
    /\ added' = Append(added, [k \in 1..Len(vs) |-> Sprint(vs[k])])
    /\ flushedBefore' = flushed
    /\ UNCHANGED flushed

WriteToAction(plan) ==
    /\ last' = WriteTo(b, plan)
    /\ b' = BufferAfterWriteTo(b)
    /\ op' = "WriteTo"
    /\ lastVs' = <<>>
    /\ flushed' = IF last'.outcome = "return" /\ last'.err = "nil"
                  THEN Len(added) ELSE flushed
    /\ flushedBefore' = flushed
    /\ UNCHANGED added

\* AddRow and WriteTo in any interleaving, on a sink that never fails.
Next ==
    \/ \E vs \in RowInputs : AddRowAction(vs)
    \/ WriteToAction(NeverFails)

\* The same, on a sink that may fail at any one write.
NextSink ==
    \/ \E vs \in RowInputs : AddRowAction(vs)
    \/ \E plan \in Plans(Len(b.rows)) : WriteToAction(plan)

\* The same as Next, on the texts of the width runs.
NextText ==
    \/ \E vs \in TextRowInputs : AddRowAction(vs)
    \/ WriteToAction(NeverFails)

\* The same as Next, on rows of at most one value under nested markers.
NextAlign ==
    \/ \E vs \in AlignRowInputs : AddRowAction(vs)
    \/ WriteToAction(NeverFails)

Spec == Init /\ [][Next]_vars

SpecAnyOpts == InitAny /\ [][Next]_vars

SpecSink == InitSink /\ [][NextSink]_vars

SpecText == InitSink /\ [][NextText]_vars

SpecAlign == Init /\ [][NextAlign]_vars

\* ---------------------------------------------------- reading the history
\* The text of cell k of row r as WriteTo slices it out of the arena: the wb
\* bytes that follow the bytes of every earlier cell.
ArenaOffset(buffer, r, k) ==
    SumSeq([q \in 1..(r - 1) |->
               SumSeq([x \in 1..Len(buffer.rows[q]) |-> buffer.rows[q][x].wb])])
        + SumSeq([x \in 1..(k - 1) |-> buffer.rows[r][x].wb])

CellText(buffer, r, k) ==
    SubSeq(buffer.buf, ArenaOffset(buffer, r, k) + 1,
           ArenaOffset(buffer, r, k) + buffer.rows[r][k].wb)

\* A line without its pad characters (no text of the runs holds one).
StripPad(line, padChar) == LET Keep(x) == x # padChar IN SelectSeq(line, Keep)

\* The most recent operation is a WriteTo that returned, and returned nil.
Returned == op = "WriteTo" /\ last.outcome = "return"
ReturnedNil == Returned /\ last.err = "nil"

\* Line r of the most recent WriteTo carries the texts of the r-th row added.
LineIsRow(line, r) ==
    StripPad(line, b.opts.PadChar) = Concat(added[r]) \o <<10>>

\* ------------------------------------------------------------------ claims

\* C1: a cell added by AddRow takes the alignment of the OUTERMOST marker of
\* its value (the table default if it has none), whatever is nested below it,
\* and its stored text is the text of the fully unwrapped base value.
C1_OutermostMarkerWins ==
    op = "AddRow" =>
        \A k \in 1..Len(lastVs) :
            LET v == lastVs[k]
                c == b.rows[Len(b.rows)][k]
            IN /\ c.right = (IF v.marks = <<>> THEN b.opts.AlignRight
                             ELSE Head(v.marks) = "R")
               /\ CellText(b, Len(b.rows), k) = Sprint([v EXCEPT !.marks = <<>>])

\* C3: WriteTo resets the buffer: once a WriteTo has written the buffered rows,
\* a WriteTo that follows further AddRow calls writes only the rows added
\* since, and none of those already written.
C3_WriteToResets ==
    (ReturnedNil /\ flushedBefore >= 1 /\ Len(added) > flushedBefore) =>
        /\ Len(last.writes) = Len(added) - flushedBefore
        /\ \A r \in 1..Len(last.writes) : LineIsRow(last.writes[r], flushedBefore + r)

\* C4: with MinWidth >= 0 and Padding >= 0, on a sink that never fails, every
\* WriteTo call returns, and returns no error, the empty table included.
C4_WriteToNeverFails ==
    (/\ op = "WriteTo"
     /\ b.opts.MinWidth >= 0
     /\ b.opts.Padding >= 0
     /\ last.plan = NeverFails)
        => (last.outcome = "return" /\ last.err = "nil")

\* C2: WriteTo is a pure read: every WriteTo call leaves the rows, the arena
\* and the options as they were; two WriteTo calls in succession, with no
\* AddRow between them, write the same bytes; and every WriteTo (on a sink
\* that does not fail) writes one line for every row ever added, in the order
\* the rows were added.
C2_WriteToIsPureRead ==
    [][op' = "WriteTo" =>
        /\ b' = b
        /\ (op = "WriteTo" /\ last'.plan = last.plan) =>
               (last'.writes = last.writes /\ last'.written = last.written)
        /\ last'.plan = NeverFails =>
               /\ Len(last'.writes) = Len(added)
               /\ \A r \in 1..Len(added) : LineIsRow(last'.writes[r], r)]_vars

\* C2, on every table but the one no row of which has a cell: the same three
\* properties, and the call returns nil.
C2_PureReadWhenCellsStored ==
    [][op' = "WriteTo" =>
        /\ b' = b
        /\ (op = "WriteTo" /\ last'.plan = last.plan) =>
               (last'.writes = last.writes /\ last'.written = last.written)
        /\ (last'.plan = NeverFails /\ TotalCells(b.rows) >= 1) =>
               /\ last'.outcome = "return" /\ last'.err = "nil"
               /\ Len(last'.writes) = Len(added)
               /\ \A r \in 1..Len(added) : LineIsRow(last'.writes[r], r)]_vars

\* C2's case: a WriteTo after an earlier WriteTo and further AddRow calls.
C2_Witness ==
    /\ ReturnedNil
    /\ flushedBefore >= 1
    /\ Len(added) > flushedBefore
    /\ Len(last.writes) = Len(added)

\* C5: every row with at least one cell is written as a line in which the text
\* of the last cell is followed by the newline and nothing else, whatever the
\* alignment of that cell.
C5_NoPaddingAfterLastCell ==
    op = "WriteTo" =>
        \A r \in 1..Len(b.rows) :
            b.rows[r] # <<>> =>
                LET line == last.writes[r]
                    t == added[r][Len(added[r])]
                IN /\ r <= Len(last.writes)
                   /\ Len(line) > Len(t)
                   /\ SubSeq(line, Len(line) - Len(t), Len(line)) = t \o <<10>>

\* C5's case: a written row whose last cell is left-aligned and narrower than
\* its column, in a table that also holds a right-aligned last cell.
C5_Witness ==
    /\ op = "WriteTo"
    /\ Len(last.writes) = Len(b.rows)
    /\ \E r \in 1..Len(b.rows) :
           /\ b.rows[r] # <<>>
           /\ ~b.rows[r][Len(b.rows[r])].right
           /\ b.rows[r][Len(b.rows[r])].wc < last.widths[Len(b.rows[r])]
    /\ \E r \in 1..Len(b.rows) :
           /\ b.rows[r] # <<>>
           /\ b.rows[r][Len(b.rows[r])].right

SetMax(S) == CHOOSE x \in S : \A y \in S : y <= x

\* The rows that have a cell at index j.
RowsWith(j) == {r \in 1..Len(b.rows) : Len(b.rows[r]) >= j}

\* C6: at every WriteTo there are as many columns as the longest stored row has
\* cells, and the width of column j is the larger of MinWidth and the largest
\* display width among the cells at index j of the rows that have one.
C6_ColumnWidths ==
    op = "WriteTo" =>
        /\ Len(last.widths) = SetMax({Len(b.rows[r]) : r \in 1..Len(b.rows)} \cup {0})
        /\ \A j \in 1..Len(last.widths) :
               last.widths[j] =
                   Max2(b.opts.MinWidth, SetMax({b.rows[r][j].wc : r \in RowsWith(j)}))

\* C6's case: a ragged table in which the shorter row sets the width of a
\* column above MinWidth and the longer row alone defines another column.
C6_Witness ==
    /\ op = "WriteTo"
    /\ \E r1, r2 \in 1..Len(b.rows) :
           /\ Len(b.rows[r1]) < Len(b.rows[r2])
           /\ Len(last.widths) = Len(b.rows[r2])
           /\ \E j \in 1..Len(b.rows[r1]) :
                  /\ b.rows[r1][j].wc > b.rows[r2][j].wc
                  /\ b.rows[r1][j].wc > b.opts.MinWidth
                  /\ last.widths[j] = b.rows[r1][j].wc

\* The line the layout rules give row r: before each cell but the first the
\* gap of Padding pad characters; a right-aligned cell as pad characters up to
\* the column width and then its text; a left-aligned cell as its text and
\* then, unless it is the last, pad characters up to the column width.
PadRun(n) == Repeat(b.opts.PadChar, n)

GapOf(j) == IF j > 1 THEN PadRun(b.opts.Padding) ELSE <<>>

FieldOf(r, j) ==
    LET c == b.rows[r][j]
        fill == PadRun(last.widths[j] - c.wc)
    IN IF c.right THEN fill \o added[r][j]
       ELSE IF j < Len(b.rows[r]) THEN added[r][j] \o fill
       ELSE added[r][j]

\* The bytes of the line of row r that come before the field of cell j.
BeforeField(r, j) ==
    Concat([k \in 1..(j - 1) |-> GapOf(k) \o FieldOf(r, k)]) \o GapOf(j)

\* C7: every row of a table that holds a cell is written, and written as those
\* rules lay it out; every cell but a
\* left-aligned last one fills exactly its column width in display columns,
\* and the field of column j starts at display column
\* sum over k < j of (width[k] + Padding) in every row.
C7_CellLayout ==
    op = "WriteTo" =>
        /\ TotalCells(b.rows) >= 1 => Len(last.writes) = Len(b.rows)
        /\ \A r \in 1..Len(last.writes) :
               LET n == Len(b.rows[r]) IN
               /\ last.writes[r] =
                      Concat([k \in 1..n |-> GapOf(k) \o FieldOf(r, k)]) \o <<10>>
               /\ \A j \in 1..n :
                      /\ (b.rows[r][j].right \/ j < n) =>
                             cellWidth(FieldOf(r, j)) = last.widths[j]
                      /\ cellWidth(BeforeField(r, j)) =
                             SumSeq([k \in 1..(j - 1) |-> last.widths[k] + b.opts.Padding])

\* C7's case: a written table with a gap, a right-aligned cell padded on its
\* left and a left-aligned cell, not the last of its row, padded on its right.
C7_Witness ==
    /\ op = "WriteTo"
    /\ b.opts.Padding > 0
    /\ Len(last.writes) = Len(b.rows)
    /\ \E r \in 1..Len(b.rows) : \E j \in 1..Len(b.rows[r]) :
           b.rows[r][j].right /\ j > 1 /\ last.widths[j] > b.rows[r][j].wc
    /\ \E r \in 1..Len(b.rows) : \E j \in 1..(Len(b.rows[r]) - 1) :
           ~b.rows[r][j].right /\ last.widths[j] > b.rows[r][j].wc

\* C8: WriteTo writes the rows in order, one write per row.  If a write fails,
\* WriteTo returns that error at once, with the sum of the byte counts the sink
\* reported up to and including the failed write, and writes nothing more; if
\* no write fails, WriteTo returns no error and the total length of the lines
\* of all rows.
C8_SinkFailureStopsWriteTo ==
    op = "WriteTo" =>
        LET f == last.plan.failAt
            n == Len(last.writes)
        IN /\ Len(last.reported) = n
           /\ \A r \in 1..n : LineIsRow(last.writes[r], r)
           /\ (f >= 1 /\ f <= n) =>
                  /\ last.outcome = "return"
                  /\ last.err = "EIO"
                  /\ n = f
                  /\ \A r \in 1..(f - 1) : last.reported[r] = Len(last.writes[r])
                  /\ last.reported[f] = Min2(last.plan.n, Len(last.writes[f]))
                  /\ last.written = SumSeq(last.reported)
           /\ ~(f >= 1 /\ f <= n) =>
                  /\ last.outcome = "return"
                  /\ last.err = "nil"
                  /\ n = Len(b.rows)
                  /\ last.written = SumSeq([r \in 1..n |-> Len(last.writes[r])])

\* C8, on every table but the one no row of which has a cell.
C8_SinkFailureWhenCellsStored ==
    (op = "WriteTo" /\ TotalCells(b.rows) >= 1) =>
        LET f == last.plan.failAt
            n == Len(last.writes)
        IN /\ Len(last.reported) = n
           /\ \A r \in 1..n : LineIsRow(last.writes[r], r)
           /\ (f >= 1 /\ f <= n) =>
                  /\ last.outcome = "return"
                  /\ last.err = "EIO"
                  /\ n = f
                  /\ \A r \in 1..(f - 1) : last.reported[r] = Len(last.writes[r])
                  /\ last.reported[f] = Min2(last.plan.n, Len(last.writes[f]))
                  /\ last.written = SumSeq(last.reported)
           /\ ~(f >= 1 /\ f <= n) =>
                  /\ last.outcome = "return"
                  /\ last.err = "nil"
                  /\ n = Len(b.rows)
                  /\ last.written = SumSeq([r \in 1..n |-> Len(last.writes[r])])

\* C8's case: the first of two writes fails after one byte of a longer line.
C8_Witness ==
    /\ op = "WriteTo"
    /\ Len(b.rows) = 2
    /\ last.plan.failAt = 1
    /\ last.err = "EIO"
    /\ Len(last.writes) = 1
    /\ last.written = 1
    /\ Len(last.writes[1]) > 1

\* The display width the tokens of a text give it: nothing for a CSI sequence,
\* two columns for a wide code point, one for an ordinary one.
TokWidth(tok) == IF tok.t = "csi" THEN 0 ELSE IF tok.t = "wide" THEN 2 ELSE 1

VisibleWidth(s) ==
    LET toks == CHOOSE x \in Samples : TokBytes(x) = s
    IN SumSeq([k \in 1..Len(toks) |-> TokWidth(toks[k])])

\* The pad characters the layout puts around cell j of row r in a column of
\* width w, from the display width of its text alone.
PadCount(r, j, w) ==
    (IF j > 1 THEN b.opts.Padding ELSE 0)
        + (IF b.rows[r][j].right \/ j < Len(b.rows[r])
           THEN w - VisibleWidth(added[r][j]) ELSE 0)

\* C9: the width AddRow records for a cell is the display width of its visible
\* text (CSI sequences count nothing, wide code points two, others one), kept
\* apart from its length in bytes; WriteTo sizes the columns and the padding
\* by the display width alone and writes the bytes of each cell unchanged.
C9_DisplayWidthNotByteLength ==
    /\ \A r \in 1..Len(b.rows) : \A j \in 1..Len(b.rows[r]) :
           /\ b.rows[r][j].wc = VisibleWidth(added[r][j])
           /\ b.rows[r][j].wb = Len(added[r][j])
           /\ CellText(b, r, j) = added[r][j]
    /\ op = "WriteTo" =>
           /\ \A j \in 1..Len(last.widths) :
                  last.widths[j] =
                      Max2(b.opts.MinWidth,
                           SetMax({VisibleWidth(added[r][j]) : r \in RowsWith(j)}))
           /\ TotalCells(b.rows) >= 1 => Len(last.writes) = Len(b.rows)
           /\ \A r \in 1..Len(last.writes) :
                  /\ LineIsRow(last.writes[r], r)
                  /\ Len(last.writes[r]) =
                         SumSeq([j \in 1..Len(added[r]) |->
                                    Len(added[r][j]) + PadCount(r, j, last.widths[j])]) + 1

\* C9's case: a written row with a cell that holds CSI sequences (more bytes
\* than columns) and is padded to a column set by a wide cell of another row.
C9_Witness ==
    /\ op = "WriteTo"
    /\ Len(last.writes) = Len(b.rows)
    /\ \E r1, r2 \in 1..Len(b.rows) : \E j \in 1..Len(last.widths) :
           /\ r1 \in RowsWith(j) /\ r2 \in RowsWith(j)
           /\ CsiMatchLen(added[r1][j], 1) > 0
           /\ b.rows[r1][j].wb > b.rows[r1][j].wc
           /\ j < Len(b.rows[r1])
           /\ b.rows[r2][j].wc = last.widths[j]
           /\ b.rows[r2][j].wc > b.rows[r1][j].wc
           /\ b.rows[r2][j].wb > b.rows[r2][j].wc

\* The buffer with a negative MinWidth or Padding set to 0.
Clamped(buffer) ==
    [buffer EXCEPT !.opts.MinWidth = Max2(@, 0), !.opts.Padding = Max2(@, 0)]

\* C10: whatever the integers MinWidth and Padding are, negative ones
\* included, WriteTo on stored rows returns without failure and writes what it
\* would write with the negative field set to 0.
C10_NegativeOptionsClamped ==
    (op = "WriteTo" /\ TotalCells(b.rows) >= 1) =>
        /\ last.outcome = "return"
        /\ last.err = "nil"
        /\ last.writes = WriteTo(Clamped(b), NeverFails).writes

====
